---- MODULE Spec2Model ----
(***************************************************************************)
(* A model of pman's OpenShift cluster manager (pman/openshiftmgr.py):     *)
(* the job descriptor built by schedule(), the state derived by state()   *)
(* from the orchestrator's raw job status, job removal, and the           *)
(* concatenated log of get_job_pod_logs().                                 *)
(*                                                                         *)
(* Python values are represented as follows.  None is the empty tuple and  *)
(* a value v that may be None is the one-element tuple <<v>>.  A str that  *)
(* the code takes apart or puts together (job and pod names, commands,     *)
(* logs, paths) is a tuple of one-character strings; a str the code only   *)
(* passes along is a TLA+ string.  A dict is a record, and a key the code  *)
(* adds conditionally is a field that is in the record's DOMAIN or not.    *)
(* A call either returns or raises: [kind |-> "return", value |-> v] or    *)
(* [kind |-> "raise", exc |-> e].                                          *)
(***************************************************************************)
EXTENDS Integers, Sequences, FiniteSets, TLC

VARIABLES
    job_status,     \* job.status of the job state() reads (V1JobStatus)
    state_ret,      \* outcome of the last state() call on job_status
    environ,        \* os.environ: STORAGE_TYPE and OPENSHIFTMGR_PROJECT
    init_environ,   \* os.environ as it was when __init__ ran
    project,        \* self.project
    jobs,           \* the project's jobs in the cluster: name -> None or Some(job)
    ret,            \* outcome of the last schedule() or remove_job() call
    pod,            \* the pod get_job_pod_logs() reads: name, job, container logs
    log_pc,         \* where the get_job_pod_logs() call stands
    reads,          \* the orchestrator's answers to the log reads of this call
    log_locals,     \* the logs held in the call's local variables so far
    log_ret         \* outcome of the get_job_pod_logs() call

vars == <<job_status, state_ret, environ, init_environ, project, jobs, ret,
          pod, log_pc, reads, log_locals, log_ret>>
stateVars == <<job_status, state_ret>>
mgrVars == <<environ, init_environ, project, jobs, ret>>
logVars == <<pod, log_pc, reads, log_locals, log_ret>>

None == <<>>
Some(v) == <<v>>

NoCall == [kind |-> "none"]
NoOp == [op |-> "none", name |-> <<>>, out |-> NoCall]
NoPod == [name |-> <<>>, job |-> <<>>, logs |-> <<>>]
Return(v) == [kind |-> "return", value |-> v]
Raise(e) == [kind |-> "raise", exc |-> e]

-----------------------------------------------------------------------------
(* Bounds *)

MaxCount == 1       \* largest active / failed / succeeded count reported
MaxConds == 2       \* longest condition list reported

-----------------------------------------------------------------------------
(* The raw job status the orchestrator reports *)

\* V1JobCondition records: type, status ("True"/"False"), reason (str or None)
Conditions ==
    { [type |-> "Failed",   status |-> "True",  reason |-> Some("BackoffLimitExceeded")],
      [type |-> "Failed",   status |-> "True",  reason |-> Some("DeadlineExceeded")],
      [type |-> "Failed",   status |-> "True",  reason |-> None],
      [type |-> "Failed",   status |-> "False", reason |-> Some("BackoffLimitExceeded")],
      [type |-> "Complete", status |-> "True",  reason |-> None] }

Counts == {None} \cup {Some(n) : n \in 0..MaxCount}
Times == {None, Some("2018-03-01 12:00:00+00:00")}

\* status of a job the orchestrator has just accepted: every field unset
FreshStatus ==
    [active |-> None, failed |-> None, succeeded |-> None,
     start_time |-> None, completion_time |-> None, conditions |-> None]

-----------------------------------------------------------------------------
(* state() *)

\* Python truthiness of a list-or-None
Truthy(x) == x # None /\ x[1] # <<>>

\* Python 3 `x > 0` on an int-or-None: None > 0 raises TypeError
GtZero(x) == IF x = None THEN "TypeError" ELSE IF x[1] > 0 THEN "True" ELSE "False"

\* str(x) of a datetime-or-None
Str(x) == IF x = None THEN "None" ELSE x[1]

IsFailedTrue(condition) == condition.type = "Failed" /\ condition.status = "True"

\* the for loop of lines 292-297 from position i: the index of the condition
\* the loop breaks at, 0 when the loop runs to the end
RECURSIVE ScanFrom(_, _)
ScanFrom(conds, i) ==
    IF i > Len(conds) THEN 0
    ELSE IF IsFailedTrue(conds[i]) THEN i
    ELSE ScanFrom(conds, i + 1)

\* the same loop without its break: the last matching condition is kept
RECURSIVE ScanNoBreak(_, _)
ScanNoBreak(conds, i) ==
    IF i > Len(conds) THEN 0
    ELSE LET rest == ScanNoBreak(conds, i + 1)
         IN  IF rest # 0 THEN rest ELSE IF IsFailedTrue(conds[i]) THEN i ELSE 0

ScanConditionsNoBreak(conds) == ScanNoBreak(conds, 1)

ScanConditions(conds) == ScanFrom(conds, 1)

\* lines 288-297: message, state, reason after the condition scan
AfterScan(status) ==
    LET hit == IF Truthy(status.conditions) THEN ScanConditions(status.conditions[1]) ELSE 0
    IN  IF hit # 0
        THEN [message |-> Some("started"),
              reason  |-> status.conditions[1][hit].reason,
              state   |-> Some("failed")]
        ELSE [message |-> None, reason |-> None, state |-> None]

StatusDict(status, message, state, reason) ==
    [Status |-> [Message        |-> message,
                 State          |-> state,
                 Reason         |-> reason,
                 Active         |-> status.active,
                 Failed         |-> status.failed,
                 Succeeded      |-> status.succeeded,
                 StartTime      |-> Str(status.start_time),
                 CompletionTime |-> Str(status.completion_time)]]

\* lines 298-307: the branch taken when the scan set no state
Branches(status, reason) ==
    LET succ == IF status.completion_time # None THEN GtZero(status.succeeded) ELSE "False"
    IN  IF succ = "TypeError" THEN Raise("TypeError")
        ELSE IF succ = "True"
        THEN Return(StatusDict(status, Some("finished"), Some("complete"), reason))
        ELSE LET act == GtZero(status.active)
             IN  IF act = "TypeError" THEN Raise("TypeError")
                 ELSE IF act = "True"
                 THEN Return(StatusDict(status, Some("started"), Some("running"), reason))
                 ELSE Return(StatusDict(status, Some("inactive"), Some("inactive"), reason))

\* a state() that tests completion before it looks at the conditions
state_completion_first(status) ==
    LET s == AfterScan(status)
    IN  IF status.completion_time # None /\ GtZero(status.succeeded) = "True"
        THEN Return(StatusDict(status, Some("finished"), Some("complete"), None))
        ELSE IF s.state # None
        THEN Return(StatusDict(status, s.message, s.state, s.reason))
        ELSE Branches(status, s.reason)

\* state(name), on the status of the job get_job(name) returned
state(status) ==
    LET s == AfterScan(status)
    IN  IF s.state # None
        THEN Return(StatusDict(status, s.message, s.state, s.reason))
        ELSE Branches(status, s.reason)

-----------------------------------------------------------------------------
(* Specification SpecState: the orchestrator reports, the caller asks *)

InitState ==
    /\ job_status = FreshStatus
    /\ state_ret = NoCall
    /\ environ = [STORAGE_TYPE |-> None, OPENSHIFTMGR_PROJECT |-> None]
    /\ init_environ = environ
    /\ project = "myproject"
    /\ jobs = [n \in {} |-> None]
    /\ ret = NoOp
    /\ pod = NoPod
    /\ log_pc = "idle"
    /\ reads = << >>
    /\ log_locals = << >>
    /\ log_ret = NoCall

\* the orchestrator updates one count of the job's status
ReportCount ==
    /\ \E f \in {"active", "failed", "succeeded"} : \E c \in Counts :
          /\ job_status[f] # c
          /\ job_status' = [job_status EXCEPT ![f] = c]
    /\ state_ret' = NoCall
    /\ UNCHANGED <<mgrVars, logVars>>

\* the orchestrator sets the start or the completion time
ReportTime ==
    /\ \E f \in {"start_time", "completion_time"} : \E t \in Times :
          /\ job_status[f] # t
          /\ job_status' = [job_status EXCEPT ![f] = t]
    /\ state_ret' = NoCall
    /\ UNCHANGED <<mgrVars, logVars>>

\* the orchestrator reports an empty condition list, or one more condition
ReportCondition ==
    /\ \/ /\ job_status.conditions = None
          /\ job_status' = [job_status EXCEPT !.conditions = Some(<<>>)]
       \/ \E c \in Conditions :
             LET old == IF job_status.conditions = None THEN <<>> ELSE job_status.conditions[1]
             IN  /\ Len(old) < MaxConds
                 /\ job_status' = [job_status EXCEPT !.conditions = Some(Append(old, c))]
    /\ state_ret' = NoCall
    /\ UNCHANGED <<mgrVars, logVars>>

StateCall ==
    /\ state_ret = NoCall
    /\ state_ret' = state(job_status)
    /\ UNCHANGED job_status
    /\ UNCHANGED <<mgrVars, logVars>>

NextState == ReportCount \/ ReportTime \/ ReportCondition \/ StateCall

SpecState == InitState /\ [][NextState]_vars

-----------------------------------------------------------------------------
(* Strings the code takes apart or puts together *)

INIT_STORAGE == <<"i", "n", "i", "t", "-", "s", "t", "o", "r", "a", "g", "e">>
PUBLISH == <<"p", "u", "b", "l", "i", "s", "h">>
INIT_LABEL == <<"i", "n", "i", "t", "_", "c", "o", "n", "t", "a", "i", "n", "e", "r", " ", "l", "o", "g", ":">>
PLUGIN_LABEL == <<"p", "l", "u", "g", "i", "n", "_", "c", "o", "n", "t", "a", "i", "n", "e", "r", " ", "l", "o", "g", ":">>
PUBLISH_LABEL == <<"p", "u", "b", "l", "i", "s", "h", "_", "c", "o", "n", "t", "a", "i", "n", "e", "r", " ", "l", "o", "g", ":">>
SHARE_KEY == <<"/", "t", "m", "p", "/", "s", "h", "a", "r", "e", "/", "k", "e", "y", "-">>

Digits == <<"0", "1", "2", "3", "4", "5", "6", "7", "8", "9">>

\* str.split(sep) for a one-character sep: the pieces between the separators,
\* empty pieces included
RECURSIVE Split(_, _)
Split(s, sep) ==
    IF \A i \in 1..Len(s) : s[i] # sep THEN <<s>>
    ELSE LET k == CHOOSE i \in 1..Len(s) :
                     s[i] = sep /\ \A j \in 1..(i - 1) : s[j] # sep
         IN  <<SubSeq(s, 1, k - 1)>> \o Split(SubSeq(s, k + 1, Len(s)), sep)

\* int(s) of a string of decimal digits
RECURSIVE Int_(_)
Int_(s) ==
    IF s = <<>> THEN 0
    ELSE 10 * Int_(SubSeq(s, 1, Len(s) - 1))
         + ((CHOOSE d \in 1..10 : Digits[d] = s[Len(s)]) - 1)

-----------------------------------------------------------------------------
(* __init__ and schedule() *)

\* lines 16-20: self.project = project or os.environ.get(...) or 'myproject'
Construct(arg, env) ==
    IF arg # None THEN arg[1]
    ELSE IF env.OPENSHIFTMGR_PROJECT # None THEN env.OPENSHIFTMGR_PROJECT[1]
    ELSE "myproject"

\* lines 61-95: the container that runs the caller's image
PluginContainer(image, command, name, number_of_workers, cpu_limit, memory_limit) ==
    [env |-> << [name |-> "NUMBER_OF_WORKERS", value |-> number_of_workers],
                [name |-> "CPU_LIMIT", value |-> cpu_limit],
                [name |-> "MEMORY_LIMIT", value |-> memory_limit] >>,
     name |-> name,
     image |-> image,
     command |-> Split(command, " "),
     resources |-> [limits   |-> [memory |-> memory_limit, cpu |-> cpu_limit],
                    requests |-> [memory |-> "128Mi", cpu |-> "250m"]],
     volumeMounts |-> << [mountPath |-> "/share", name |-> "shared-volume"] >>]

\* lines 44-100
BaseJob(image, command, name, number_of_workers, cpu_limit, memory_limit) ==
    [apiVersion |-> "batch/v1",
     kind |-> "Job",
     metadata |-> [name |-> name],
     spec |-> [parallelism |-> number_of_workers,
               completions |-> number_of_workers,
               activeDeadlineSeconds |-> 3600,
               template |-> [metadata |-> [name |-> name],
                             spec |-> [restartPolicy |-> "Never",
                                       containers |-> << PluginContainer(image, command, name,
                                                            number_of_workers, cpu_limit,
                                                            memory_limit) >>]]]]

FixedResources ==
    [limits   |-> [memory |-> "1024Mi", cpu |-> "2000m"],
     requests |-> [memory |-> "128Mi", cpu |-> "250m"]]

\* lines 111-145
InitContainer(name) ==
    [name |-> INIT_STORAGE,
     image |-> "fnndsc/pman-swift-publisher",
     env |-> << [name |-> "SWIFT_KEY", value |-> name] >>,
     command |-> << "python3", "get_data.py" >>,
     resources |-> FixedResources,
     volumeMounts |-> << [mountPath |-> "/share", name |-> "shared-volume"],
                         [mountPath |-> "/etc/swift", name |-> "swift-credentials",
                          readOnly |-> TRUE] >>]

\* lines 148-195
PublishContainer(name, proj) ==
    [name |-> PUBLISH,
     image |-> "fnndsc/pman-swift-publisher",
     env |-> << [name |-> "SWIFT_KEY", value |-> name],
                [name |-> "KUBECFG_PATH", value |-> "/tmp/.kube/config"],
                [name |-> "OPENSHIFTMGR_PROJECT", value |-> proj] >>,
     command |-> << "python3", "watch.py" >>,
     resources |-> FixedResources,
     volumeMounts |-> << [mountPath |-> "/share", name |-> "shared-volume"],
                         [mountPath |-> "/etc/swift", name |-> "swift-credentials",
                          readOnly |-> TRUE],
                         [name |-> "kubecfg-volume", mountPath |-> "/tmp/.kube/",
                          readOnly |-> TRUE] >>]

\* lines 196-214 without the kubecfg secret
SwiftVolumesNoKubecfg ==
    << [name |-> "shared-volume", emptyDir |-> << >>],
       [name |-> "swift-credentials", secret |-> [secretName |-> "swift-credentials"]] >>

\* lines 196-214
SwiftVolumes ==
    << [name |-> "shared-volume", emptyDir |-> << >>],
       [name |-> "swift-credentials", secret |-> [secretName |-> "swift-credentials"]],
       [name |-> "kubecfg-volume", secret |-> [secretName |-> "kubecfg"]] >>

\* lines 216-223
HostPathVolumes(name) ==
    << [name |-> "shared-volume", hostPath |-> [path |-> SHARE_KEY \o name]] >>

\* d_job with the pod template's spec replaced
WithPodSpec(d_job, podspec) == [d_job EXCEPT !.spec.template.spec = podspec]

\* lines 101-106 without line 106: the limit is set, the node selector is not
WithGpuNoSelector(d_job, gpu_limit) ==
    IF Int_(gpu_limit) > 0
    THEN LET ps == d_job.spec.template.spec
             c == ps.containers[1]
             limits == ("nvidia.com/gpu" :> Int_(gpu_limit)) @@ c.resources.limits
         IN  WithPodSpec(d_job, [ps EXCEPT !.containers[1].resources.limits = limits])
    ELSE d_job

\* lines 101-106
WithGpu(d_job, gpu_limit) ==
    IF Int_(gpu_limit) > 0
    THEN LET ps == d_job.spec.template.spec
             c == ps.containers[1]
             limits == ("nvidia.com/gpu" :> Int_(gpu_limit)) @@ c.resources.limits
         IN  WithPodSpec(d_job,
                 ("nodeSelector" :> [accelerator |-> "gpu-node"])
                 @@ [ps EXCEPT !.containers[1].resources.limits = limits])
    ELSE d_job

\* lines 109-214, with the publish container put in front of the caller's
WithSwiftStoragePublishFirst(d_job, name, proj) ==
    LET ps == d_job.spec.template.spec
    IN  WithPodSpec(d_job,
            ("initContainers" :> << InitContainer(name) >>)
            @@ ("volumes" :> SwiftVolumes)
            @@ [ps EXCEPT !.containers = << PublishContainer(name, proj) >> \o @])

\* lines 109-214: the swift branch
WithSwiftStorage(d_job, name, proj) ==
    LET ps == d_job.spec.template.spec
    IN  WithPodSpec(d_job,
            ("initContainers" :> << InitContainer(name) >>)
            @@ ("volumes" :> SwiftVolumes)
            @@ [ps EXCEPT !.containers = Append(@, PublishContainer(name, proj))])

\* lines 215-223: the else branch
WithHostPathStorage(d_job, name) ==
    LET ps == d_job.spec.template.spec
    IN  WithPodSpec(d_job, ("volumes" :> HostPathVolumes(name)) @@ ps)

\* every container of a pod template: the init containers, which run first,
\* then the containers
AllContainers(ps) ==
    (IF "initContainers" \in DOMAIN ps THEN ps.initContainers ELSE << >>) \o ps.containers

AllContainerNames(ps) == { AllContainers(ps)[i].name : i \in 1..Len(AllContainers(ps)) }

\* the storage type fixed when the manager was constructed
StorageTypeAtInit == init_environ.STORAGE_TYPE

\* line 109: os.environ.get('STORAGE_TYPE')
StorageType == environ.STORAGE_TYPE

\* lines 44-223: the body schedule() hands to create_namespaced_job
JobBody(image, command, name, number_of_workers, cpu_limit, memory_limit, gpu_limit) ==
    LET base == BaseJob(image, command, name, number_of_workers, cpu_limit, memory_limit)
        gpu == WithGpu(base, gpu_limit)
    IN  IF StorageType = Some("swift")
        THEN WithSwiftStorage(gpu, name, project)
        ELSE WithHostPathStorage(gpu, name)

-----------------------------------------------------------------------------
(* Specification Spec: one manager, its environment and the cluster's jobs *)

MaxGpu == 1         \* largest gpu_limit a caller passes

Names == { <<"j", "o", "b", "1">>, <<"a", "-", "b">> }
Images == { "fnndsc/pl-simpledsapp" }
Commands == { <<"l", "s">>, <<"l", "s", " ", "-", "l", " ", "/", "s", "h", "a", "r", "e">> }
Workers == { 1, 4 }
GpuLimits == { <<Digits[n + 1]>> : n \in 0..MaxGpu }
StorageTypes == { None, Some("swift"), Some("hostPath") }

\* the state after OpenShiftManager(project) in some environment
Init ==
    /\ environ \in [STORAGE_TYPE : StorageTypes,
                    OPENSHIFTMGR_PROJECT : {None, Some("fnndsc")}]
    /\ init_environ = environ
    /\ \E arg \in {None, Some("chris")} : project = Construct(arg, environ)
    /\ jobs = [n \in Names |-> None]
    /\ ret = NoOp
    /\ pod = NoPod
    /\ log_pc = "idle"
    /\ reads = << >>
    /\ log_locals = << >>
    /\ log_ret = NoCall
    /\ job_status = FreshStatus
    /\ state_ret = NoCall

\* the process's environment changes after construction
SetStorageType ==
    /\ \E v \in StorageTypes :
          /\ v # environ.STORAGE_TYPE
          /\ environ' = [environ EXCEPT !.STORAGE_TYPE = v]
    /\ UNCHANGED <<init_environ, project, jobs, ret, stateVars, logVars>>

\* schedule(): build the body, then create_namespaced_job(namespace, body).
\* The orchestrator rejects a name that is taken (409), and the client raises.
Schedule ==
    /\ \E image \in Images, command \in Commands, name \in Names,
          number_of_workers \in Workers, gpu_limit \in GpuLimits :
          LET args == [image |-> image, command |-> command, name |-> name,
                       number_of_workers |-> number_of_workers,
                       cpu_limit |-> "2000m", memory_limit |-> "1024Mi",
                       gpu_limit |-> gpu_limit]
              d_job == JobBody(image, command, name, number_of_workers,
                               "2000m", "1024Mi", gpu_limit)
          IN  IF jobs[name] # None
              THEN /\ ret' = [op |-> "schedule", name |-> name, out |-> Raise("ApiException")]
                   /\ UNCHANGED jobs
              ELSE /\ jobs' = [jobs EXCEPT ![name] = Some([args |-> args, body |-> d_job])]
                   /\ ret' = [op |-> "schedule", name |-> name, out |-> Return("job")]
    /\ UNCHANGED <<environ, init_environ, project, stateVars, logVars>>

\* remove_job(): delete_namespaced_job(name, namespace, {}) and nothing else.
\* The orchestrator answers 404 for a job that does not exist, and the
\* client raises; remove_job() has no handler, so the exception leaves it.
RemoveJob ==
    /\ \E name \in Names :
          IF jobs[name] # None
          THEN /\ jobs' = [jobs EXCEPT ![name] = None]
               /\ ret' = [op |-> "remove_job", name |-> name, out |-> Return(None)]
          ELSE /\ ret' = [op |-> "remove_job", name |-> name, out |-> Raise("ApiException")]
               /\ UNCHANGED jobs
    /\ UNCHANGED <<environ, init_environ, project, stateVars, logVars>>

Next == SetStorageType \/ Schedule \/ RemoveJob

Spec == Init /\ [][Next]_vars

-----------------------------------------------------------------------------
(* get_pod_log() and get_job_pod_logs() *)

\* read_namespaced_pod_log(namespace, name, container): the answers the
\* orchestrator can give.  A container the pod does not have is an error;
\* a read of a container it has returns the log or fails.
read_namespaced_pod_log(p, container) ==
    IF container \in DOMAIN p.logs
    THEN { Return(p.logs[container]), Raise("ApiException") }
    ELSE { Raise("ApiException") }

\* the same read without a container argument: the log of the pod's only
\* container, an error when the pod has several
read_namespaced_pod_log_default(p) ==
    IF Cardinality(DOMAIN p.logs) = 1
    THEN { Return(p.logs[c]) : c \in DOMAIN p.logs } \cup { Raise("ApiException") }
    ELSE { Raise("ApiException") }

\* lines 259-262: which read get_pod_log() issues
PodLogAnswers(p, container_name) ==
    IF container_name # << >>
    THEN read_namespaced_pod_log(p, container_name)
    ELSE read_namespaced_pod_log_default(p)

\* a get_pod_log() that turns a failed read into an empty log
get_pod_log_swallow(answer) ==
    IF answer.kind = "raise" THEN Return(<< >>) ELSE answer

\* lines 255-263: get_pod_log() returns the log read; an exception of the
\* read leaves it unhandled
get_pod_log(answer) == answer

\* line 328: plugin_container = pod_name.split('-')[0]
PluginContainerName(pod_name) == Split(pod_name, "-")[1]

\* lines 331-332 with the publish log ahead of the plugin log
ConcatLogsPublishFirst(pod_name, init_container_log, job_container_log, publish_container_log) ==
    pod_name \o <<":">> \o INIT_LABEL \o init_container_log
        \o PUBLISH_LABEL \o publish_container_log
        \o PLUGIN_LABEL \o job_container_log

\* lines 331-332
ConcatLogs(pod_name, init_container_log, job_container_log, publish_container_log) ==
    pod_name \o <<":">> \o INIT_LABEL \o init_container_log
        \o PLUGIN_LABEL \o job_container_log
        \o PUBLISH_LABEL \o publish_container_log

-----------------------------------------------------------------------------
(* Specification SpecLogs: one get_job_pod_logs() call on a job's pod *)

Suffixes == { <<"x", "7", "k", "2", "q">> }
LogTexts == { << >>, <<"A">>, <<"B", "C">> }

\* the pods the orchestrator runs for job n: named n-<suffix>, one log per
\* container of the job's pod template
PodsOf(n, job) ==
    LET cs == AllContainerNames(job.body.spec.template.spec)
    IN  { [name |-> n \o <<"-">> \o x, job |-> n, logs |-> l] :
            x \in Suffixes, l \in [cs -> LogTexts] }

InitLogs ==
    /\ environ \in [STORAGE_TYPE : {Some("swift"), Some("hostPath")},
                    OPENSHIFTMGR_PROJECT : {None}]
    /\ init_environ = environ
    /\ project = Construct(None, environ)
    /\ ret = NoOp
    /\ \E n \in Names :
          LET job == [args |-> [image |-> "fnndsc/pl-simpledsapp", command |-> <<"l", "s">>,
                                name |-> n, number_of_workers |-> 1,
                                cpu_limit |-> "2000m", memory_limit |-> "1024Mi",
                                gpu_limit |-> <<"0">>],
                      body |-> JobBody("fnndsc/pl-simpledsapp", <<"l", "s">>, n, 1,
                                       "2000m", "1024Mi", <<"0">>)]
          IN  /\ jobs = [m \in Names |-> IF m = n THEN Some(job) ELSE None]
              /\ pod \in PodsOf(n, job)
    /\ log_pc = "idle"
    /\ reads = << >>
    /\ log_locals = << >>
    /\ log_ret = NoCall
    /\ job_status = FreshStatus
    /\ state_ret = NoCall

\* one get_pod_log(pod_name, container_name) call of get_job_pod_logs(): the
\* log goes to a local variable, an exception ends get_job_pod_logs()
ReadLog(container_name, then) ==
    /\ \E answer \in PodLogAnswers(pod, container_name) :
          LET r == get_pod_log(answer)
          IN  /\ reads' = Append(reads, [container |-> container_name, answer |-> answer])
              /\ IF r.kind = "raise"
                 THEN /\ log_pc' = "done"
                      /\ log_ret' = r
                      /\ UNCHANGED log_locals
                 ELSE /\ log_pc' = then
                      /\ log_locals' = Append(log_locals, r.value)
                      /\ UNCHANGED log_ret
    /\ UNCHANGED <<pod, mgrVars, stateVars>>

\* get_job_pod_logs(pod_name) is called
CallLogs ==
    /\ log_pc = "idle"
    /\ log_pc' = "init"
    /\ UNCHANGED <<pod, reads, log_locals, log_ret, mgrVars, stateVars>>

\* line 326
ReadInitLog ==
    /\ log_pc = "init"
    /\ ReadLog(INIT_STORAGE, "plugin")

\* lines 328-329
ReadPluginLog ==
    /\ log_pc = "plugin"
    /\ ReadLog(PluginContainerName(pod.name), "publish")

\* line 330
ReadPublishLog ==
    /\ log_pc = "publish"
    /\ ReadLog(PUBLISH, "return")

\* lines 331-332
ReturnLogs ==
    /\ log_pc = "return"
    /\ log_pc' = "done"
    /\ log_ret' = Return(ConcatLogs(pod.name, log_locals[1], log_locals[2], log_locals[3]))
    /\ UNCHANGED <<pod, reads, log_locals, mgrVars, stateVars>>

NextLogs == CallLogs \/ ReadInitLog \/ ReadPluginLog \/ ReadPublishLog \/ ReturnLogs

SpecLogs == InitLogs /\ [][NextLogs]_vars

-----------------------------------------------------------------------------
(* Claims about state(), checked under SpecState *)

States == {"inactive", "running", "complete", "failed"}

HasFailedTrue(status) ==
    /\ status.conditions # None
    /\ \E i \in 1..Len(status.conditions[1]) : IsFailedTrue(status.conditions[1][i])

Returned == state_ret.kind = "return"

\* C1: whenever the job's condition list holds a condition with type "Failed"
\* and status "True", state() returns State = 'failed', whatever the counts
\* and the completion time are.
C1_FailedConditionWins ==
    (state_ret # NoCall /\ HasFailedTrue(job_status))
        => (Returned /\ state_ret.value.Status.State = Some("failed"))

\* C1 witness: state() has answered 'failed' for a job that has a Failed=True
\* condition and also succeeded > 0 with its completion time set.
C1_Witness ==
    /\ Returned
    /\ HasFailedTrue(job_status)
    /\ job_status.completion_time # None
    /\ job_status.succeeded # None /\ job_status.succeeded[1] > 0
    /\ state_ret.value.Status.State = Some("failed")

\* C2 (as claimed): every state() call completes without raising and returns
\* one of the four states, for every status the orchestrator can report,
\* unset counts included.
C2_StateTotal ==
    state_ret # NoCall
        => (Returned /\ \E s \in States : state_ret.value.Status.State = Some(s))

\* C10: when state() returns and some condition is Failed=True, Reason is the
\* reason of the first such condition in list order and Message is
\* 'started'; when it returns and no condition is Failed=True, Reason is None.
C10_FirstFailedReason ==
    Returned =>
        IF HasFailedTrue(job_status)
        THEN LET conds == job_status.conditions[1]
                 first == CHOOSE i \in 1..Len(conds) :
                             /\ IsFailedTrue(conds[i])
                             /\ \A j \in 1..(i - 1) : ~IsFailedTrue(conds[j])
             IN  /\ state_ret.value.Status.Reason = conds[first].reason
                 /\ state_ret.value.Status.Message = Some("started")
        ELSE /\ state_ret.value.Status.Reason = None
             /\ state_ret.value.Status.State \in {Some("complete"), Some("running"), Some("inactive")}

\* C10 witness: state() has returned for a job with two Failed=True
\* conditions whose reasons differ.
C10_Witness ==
    /\ Returned
    /\ job_status.conditions # None
    /\ Len(job_status.conditions[1]) >= 2
    /\ IsFailedTrue(job_status.conditions[1][1])
    /\ IsFailedTrue(job_status.conditions[1][2])
    /\ job_status.conditions[1][1].reason # job_status.conditions[1][2].reason
    /\ state_ret.value.Status.Reason = job_status.conditions[1][1].reason

-----------------------------------------------------------------------------
(* Claims about schedule() and remove_job(), checked under Spec *)

Scheduled == { n \in Names : jobs[n] # None }
PodSpecOf(n) == jobs[n][1].body.spec.template.spec
ArgsOf(n) == jobs[n][1].args

IsSwiftTopology(ps) == "initContainers" \in DOMAIN ps

\* sep.join(tokens)
RECURSIVE Join(_, _)
Join(tokens, sep) ==
    IF Len(tokens) = 0 THEN << >>
    ELSE IF Len(tokens) = 1 THEN tokens[1]
    ELSE tokens[1] \o <<sep>> \o Join(Tail(tokens), sep)

\* C3: in every job schedule() created, containers[0] of the pod template is
\* the caller's container: its name is the job name, its image the caller's
\* image, its command the caller's command cut at the spaces; this in both
\* storage modes and for every gpu limit.
C3_PrimaryContainerFirst ==
    \A n \in Scheduled :
        LET c == PodSpecOf(n).containers[1]
            a == ArgsOf(n)
        IN  /\ c.name = n
            /\ c.name = a.name
            /\ c.image = a.image
            /\ Join(c.command, " ") = a.command
            /\ \A k \in 1..Len(c.command) :
                  \A i \in 1..Len(c.command[k]) : c.command[k][i] # " "

\* C3 witness: a job built in swift mode with a gpu limit above 0, whose
\* containers list has the caller's container first and the publish
\* container after it.
C3_Witness ==
    \E n \in Scheduled :
        /\ IsSwiftTopology(PodSpecOf(n))
        /\ "nodeSelector" \in DOMAIN PodSpecOf(n)
        /\ Len(PodSpecOf(n).containers) = 2
        /\ PodSpecOf(n).containers[1].name = n
        /\ Len(PodSpecOf(n).containers[1].command) = 3

\* C4: a schedule() call made while STORAGE_TYPE is 'swift' creates a job with
\* exactly 3 containers (one init container, then the two of the containers
\* list) in the order init-storage, caller's container, publish, and exactly
\* 3 volumes; a call made in any other storage mode creates a job with
\* exactly 1 container and exactly 1 volume.
C4_TopologyByStorageMode ==
    [][\A n \in Names :
          (jobs[n] = None /\ jobs'[n] # None) =>
              LET ps == jobs'[n][1].body.spec.template.spec
                  all == AllContainers(ps)
              IN  IF environ.STORAGE_TYPE = Some("swift")
                  THEN /\ Len(all) = 3
                       /\ Len(ps.volumes) = 3
                       /\ all[1].name = INIT_STORAGE
                       /\ all[2].name = n
                       /\ all[3].name = PUBLISH
                       /\ Cardinality({ps.volumes[i].name : i \in 1..3}) = 3
                  ELSE /\ Len(all) = 1
                       /\ Len(ps.volumes) = 1
                       /\ all[1].name = n]_vars

\* C4 witness: the cluster holds a job of each topology.
C4_Witness ==
    \E n, m \in Scheduled :
        /\ Len(AllContainers(PodSpecOf(n))) = 3 /\ Len(PodSpecOf(n).volumes) = 3
        /\ Len(AllContainers(PodSpecOf(m))) = 1 /\ Len(PodSpecOf(m).volumes) = 1

\* C5: a job scheduled with gpu limit 0 has no 'nvidia.com/gpu' limit in any
\* container and no nodeSelector; a job scheduled with gpu limit k > 0 has
\* 'nvidia.com/gpu' = k in the limits of containers[0] and the nodeSelector
\* accelerator=gpu-node; in both storage modes.
C5_GpuLimit ==
    \A n \in Scheduled :
        LET ps == PodSpecOf(n)
            all == AllContainers(ps)
        IN  \E k \in 0..MaxGpu :
                /\ ArgsOf(n).gpu_limit = <<Digits[k + 1]>>
                /\ IF k = 0
                   THEN /\ "nodeSelector" \notin DOMAIN ps
                        /\ \A i \in 1..Len(all) :
                              "nvidia.com/gpu" \notin DOMAIN all[i].resources.limits
                   ELSE /\ "nodeSelector" \in DOMAIN ps
                        /\ ps.nodeSelector = [accelerator |-> "gpu-node"]
                        /\ "nvidia.com/gpu" \in DOMAIN ps.containers[1].resources.limits
                        /\ ps.containers[1].resources.limits["nvidia.com/gpu"] = k

\* C5 witness: a swift-mode job with a gpu limit above 0 next to a
\* host-path job with gpu limit 0.
C5_Witness ==
    \E n, m \in Scheduled :
        /\ IsSwiftTopology(PodSpecOf(n))
        /\ ArgsOf(n).gpu_limit # <<"0">>
        /\ "nvidia.com/gpu" \in DOMAIN PodSpecOf(n).containers[1].resources.limits
        /\ ~IsSwiftTopology(PodSpecOf(m))
        /\ ArgsOf(m).gpu_limit = <<"0">>

\* C7 (as claimed): every remove_job() call succeeds and leaves the job
\* absent, also when the job was absent already.
C7_RemoveJobIdempotent ==
    ret.op = "remove_job" => (ret.out.kind = "return" /\ jobs[ret.name] = None)

\* C9 (as claimed): every job schedule() created has the topology of the
\* storage mode that was in the environment when the manager was constructed.
C9_StorageModeReadAtConstruction ==
    \A n \in Scheduled :
        IsSwiftTopology(PodSpecOf(n)) <=> (init_environ.STORAGE_TYPE = Some("swift"))

\* C9 (amended): every schedule() call builds the topology of the storage mode
\* that is in the environment at the time of that call.
C9_StorageModeReadPerCall ==
    [][\A n \in Names :
          (jobs[n] = None /\ jobs'[n] # None) =>
              (IsSwiftTopology(jobs'[n][1].body.spec.template.spec)
                  <=> (environ.STORAGE_TYPE = Some("swift")))]_vars

\* C9 witness: a manager constructed outside swift mode has created a job of
\* the swift topology and a job of the host-path topology.
C9_Witness ==
    /\ init_environ.STORAGE_TYPE # Some("swift")
    /\ \E n, m \in Scheduled :
          IsSwiftTopology(PodSpecOf(n)) /\ ~IsSwiftTopology(PodSpecOf(m))

-----------------------------------------------------------------------------
(* Claims about get_job_pod_logs(), checked under SpecLogs *)

LogsReturned == log_ret.kind = "return"

\* the three logs the call read, by the container each was read from
LogsRead(p) ==
    [init    |-> p.logs[INIT_STORAGE],
     plugin  |-> p.logs[PluginContainerName(p.name)],
     publish |-> p.logs[PUBLISH]]

\* C6 (as claimed): the string returned for pod P and logs I, B, U is
\* P + ": init_container log:" + I + "plugin_container log:" + B
\* + "publish_container log:" + U, with a space after the first colon.
C6_AggregateWithSpace ==
    LogsReturned =>
        log_ret.value = pod.name \o <<":", " ">> \o INIT_LABEL \o LogsRead(pod).init
                            \o PLUGIN_LABEL \o LogsRead(pod).plugin
                            \o PUBLISH_LABEL \o LogsRead(pod).publish

\* C6 (amended): the string returned for pod P and logs I, B, U is
\* P + ":init_container log:" + I + "plugin_container log:" + B
\* + "publish_container log:" + U, with nothing between the colon and
\* "init_container"; I, B, U are the logs of the containers init-storage,
\* the one named by P's segment before its first '-', and publish, read in
\* that order, and the sections stand in that order.
C6_AggregateExact ==
    LogsReturned =>
        /\ log_ret.value = pod.name \o <<":">> \o INIT_LABEL \o LogsRead(pod).init
                               \o PLUGIN_LABEL \o LogsRead(pod).plugin
                               \o PUBLISH_LABEL \o LogsRead(pod).publish
        /\ Len(reads) = 3
        /\ reads[1].container = INIT_STORAGE
        /\ reads[2].container = PluginContainerName(pod.name)
        /\ reads[3].container = PUBLISH

\* C6 witness: the call has returned for a pod whose three logs differ
\* from one another.
C6_Witness ==
    /\ LogsReturned
    /\ Cardinality({LogsRead(pod).init, LogsRead(pod).plugin, LogsRead(pod).publish}) = 3

\* C8: once one of the three log reads has failed, get_job_pod_logs() has
\* raised that read's exception and made no further read; it returns a
\* string only when all three reads succeeded.
C8_AllOrNothing ==
    /\ (\E i \in 1..Len(reads) : reads[i].answer.kind = "raise") =>
          /\ log_pc = "done"
          /\ log_ret = reads[Len(reads)].answer
          /\ \A i \in 1..(Len(reads) - 1) : reads[i].answer.kind = "return"
    /\ LogsReturned =>
          /\ Len(reads) = 3
          /\ \A i \in 1..3 : reads[i].answer.kind = "return"

\* C8 witness: the init-storage and plugin reads succeeded, the publish
\* read failed, and the call has raised.
C8_Witness ==
    /\ Len(reads) = 3
    /\ reads[1].answer.kind = "return"
    /\ reads[2].answer.kind = "return"
    /\ reads[3].answer.kind = "raise"
    /\ log_ret.kind = "raise"

\* the name schedule() gave to containers[0] of the job the pod belongs to
PrimaryContainerOf(p) == jobs[p.job][1].body.spec.template.spec.containers[1].name

\* C11 (as claimed): for every scheduled job name, names holding '-'
\* included, the container get_job_pod_logs() reads the plugin log from,
\* the pod name's segment before its first '-', is the container schedule()
\* named after the job as containers[0].
C11_PluginReadFromPrimary ==
    Len(reads) >= 2 => reads[2].container = PrimaryContainerOf(pod)

====
